---------------------------- MODULE Spec2Model ----------------------------
(***************************************************************************)
(* A model of incident.go, the incident resource of a PagerDuty REST       *)
(* client.  Every public method builds one request (verb, path, body,      *)
(* headers, context), hands it to the client's HTTP gateway (c.get,        *)
(* c.post, c.put), decodes the response with c.decodeJSON and returns.     *)
(*                                                                         *)
(* Strings are TLA+ strings; the query encoder (query.Values followed by   *)
(* url.Values.Encode) is computed character by character.                  *)
(***************************************************************************)
EXTENDS Naturals, Sequences, FiniteSets, TLC

VARIABLES
    call,    \* caller -> the state of that caller's current method call
    qkind,   \* query encoder runs: which options struct is encoded
    qid,     \* query encoder runs: the incident ID of the list call
    qopts,   \* query encoder runs: the options value
    qenc     \* query encoder runs: the URLs built from qopts so far

vars == <<call, qkind, qid, qopts, qenc>>

(***************************************************************************)
(* Bounds of the model.                                                    *)
(***************************************************************************)
\* the longest slice an options field, a mutation list or a source list holds
MaxElems == 2

(***************************************************************************)
(* Characters and strings.                                                 *)
(***************************************************************************)
\* the printable ASCII characters of codes 32..95, in code order
PrintableLow == " !\"#$%&'()*+,-./0123456789:;<=>?@ABCDEFGHIJKLMNOPQRSTUVWXYZ[\\]^_"

\* the printable ASCII characters of codes 97..126, in code order
PrintableHigh == "abcdefghijklmnopqrstuvwxyz{|}~"

CharAt(s, i) == SubSeq(s, i, i)

IndexIn(c, s) == CHOOSE i \in 1..Len(s) : CharAt(s, i) = c

Contains(s, c) == \E i \in 1..Len(s) : CharAt(s, i) = c

\* the byte value of a printable character
Code(c) ==
    IF Contains(PrintableLow, c) THEN 31 + IndexIn(c, PrintableLow)
    ELSE 96 + IndexIn(c, PrintableHigh)

\* the printable character of a byte value
Chr(n) == IF n < 96 THEN CharAt(PrintableLow, n - 31) ELSE CharAt(PrintableHigh, n - 96)

\* Go's string comparison a < b: byte-wise lexicographic
RECURSIVE StrLess(_, _)
StrLess(a, b) ==
    IF b = "" THEN FALSE
    ELSE IF a = "" THEN TRUE
    ELSE IF Head(a) = Head(b) THEN StrLess(Tail(a), Tail(b))
    ELSE Code(Head(a)) < Code(Head(b))

\* strconv formatting of an unsigned integer in base 10
RECURSIVE FormatUint(_)
FormatUint(n) ==
    IF n < 10 THEN Chr(48 + n)
    ELSE FormatUint(n \div 10) \o Chr(48 + (n % 10))


(***************************************************************************)
(* net/url: QueryEscape, as url.Values.Encode applies it to keys and       *)
(* values.                                                                 *)
(***************************************************************************)
UpperHex == "0123456789ABCDEF"

\* the characters QueryEscape leaves as they are (RFC 3986 unreserved)
Unreserved == "ABCDEFGHIJKLMNOPQRSTUVWXYZabcdefghijklmnopqrstuvwxyz0123456789-_.~"

shouldEscape(c) == ~Contains(Unreserved, c)

escapeChar(c) ==
    IF c = " " THEN "+"
    ELSE IF shouldEscape(c)
         THEN "%" \o CharAt(UpperHex, (Code(c) \div 16) + 1)
                  \o CharAt(UpperHex, (Code(c) % 16) + 1)
         ELSE c

RECURSIVE QueryEscape(_)
QueryEscape(s) ==
    IF s = "" THEN "" ELSE escapeChar(Head(s)) \o QueryEscape(Tail(s))

(***************************************************************************)
(* url.Values: a map from key to the list of its values.                   *)
(***************************************************************************)
EmptyValues == [k \in {} |-> <<>>]

\* url.Values.Add
Add(v, key, value) ==
    IF key \in DOMAIN v
    THEN [v EXCEPT ![key] = Append(@, value)]
    ELSE v @@ (key :> <<value>>)

\* sort.Strings: the keys in increasing byte order
RECURSIVE insertSorted(_, _)
insertSorted(sorted, k) ==
    IF sorted = <<>> THEN <<k>>
    ELSE IF StrLess(k, Head(sorted)) THEN <<k>> \o sorted
    ELSE <<Head(sorted)>> \o insertSorted(Tail(sorted), k)

RECURSIVE SortStrings(_)
SortStrings(keys) ==
    IF keys = <<>> THEN <<>>
    ELSE insertSorted(SortStrings(Tail(keys)), Head(keys))

\* the orders in which ranging over the map v may visit its keys
IterationOrders(v) ==
    LET n == Cardinality(DOMAIN v)
    IN  {s \in [1..n -> DOMAIN v] : \A i, j \in 1..n : s[i] = s[j] => i = j}

\* the "key=value" pairs of one key, joined by "&"; buf is what was written before
RECURSIVE encodeKey(_, _, _)
encodeKey(buf, keyEscaped, vs) ==
    IF vs = <<>> THEN buf
    ELSE encodeKey((IF buf = "" THEN "" ELSE buf \o "&")
                       \o keyEscaped \o "=" \o QueryEscape(Head(vs)),
                   keyEscaped, Tail(vs))

RECURSIVE encodeKeys(_, _, _)
encodeKeys(buf, v, keys) ==
    IF keys = <<>> THEN buf
    ELSE encodeKeys(encodeKey(buf, QueryEscape(Head(keys)), v[Head(keys)]),
                    v, Tail(keys))

\* a plausible slip: the keys are written in the order the map yields them
EncodeUnsorted(v, iter) == encodeKeys("", v, iter)

\* url.Values.Encode: the keys are collected by ranging over the map (in the
\* order iter), sorted, and written with their values in order
Encode(v, iter) == encodeKeys("", v, SortStrings(iter))


(***************************************************************************)
(* The list options structs and their `url` struct tags.  A field is       *)
(* described by its Go name, its tag name, its kind and its tag options.   *)
(***************************************************************************)
Fld(field, name, kind, brackets) ==
    [field |-> field, name |-> name, kind |-> kind,
     omitempty |-> TRUE, brackets |-> brackets]

\* the embedded pagination struct: every field is omitted when zero
APIListObject ==
    << Fld("Limit", "limit", "uint", FALSE),
       Fld("Offset", "offset", "uint", FALSE),
       Fld("More", "more", "bool", FALSE),
       Fld("Total", "total", "uint", FALSE) >>

ListIncidentsOptions ==
    << Fld("Since", "since", "string", FALSE),
       Fld("Until", "until", "string", FALSE),
       Fld("DateRange", "date_range", "string", FALSE),
       Fld("Statuses", "statuses", "slice", TRUE),
       Fld("IncidentKey", "incident_key", "string", FALSE),
       Fld("ServiceIDs", "service_ids", "slice", TRUE),
       Fld("TeamIDs", "team_ids", "slice", TRUE),
       Fld("UserIDs", "user_ids", "slice", TRUE),
       Fld("Urgencies", "urgencies", "slice", TRUE),
       Fld("TimeZone", "time_zone", "string", FALSE),
       Fld("SortBy", "sort_by", "string", FALSE),
       Fld("Includes", "include", "slice", TRUE) >>

ListIncidentAlertsOptions ==
    << Fld("Statuses", "statuses", "slice", TRUE),
       Fld("SortBy", "sort_by", "string", FALSE),
       Fld("Includes", "include", "slice", TRUE) >>

ListIncidentLogEntriesOptions ==
    << Fld("Includes", "include", "slice", TRUE),
       Fld("IsOverview", "is_overview", "bool", FALSE),
       Fld("TimeZone", "time_zone", "string", FALSE),
       Fld("Since", "since", "string", FALSE),
       Fld("Until", "until", "string", FALSE) >>

OptionKinds ==
    {"ListIncidentsOptions", "ListIncidentAlertsOptions", "ListIncidentLogEntriesOptions"}

\* the struct's own fields, in declaration order
OwnFields(kind) ==
    CASE kind = "ListIncidentsOptions" -> ListIncidentsOptions
      [] kind = "ListIncidentAlertsOptions" -> ListIncidentAlertsOptions
      [] kind = "ListIncidentLogEntriesOptions" -> ListIncidentLogEntriesOptions

\* every field, in the order query.Values visits them: the struct's own,
\* then those of the embedded APIListObject
AllFields(kind) == OwnFields(kind) \o APIListObject

ZeroOf(kind) ==
    CASE kind = "string" -> ""
      [] kind = "slice" -> <<>>
      [] kind = "uint" -> 0
      [] kind = "bool" -> FALSE

FieldNames(kind) == {AllFields(kind)[i].field : i \in 1..Len(AllFields(kind))}

FieldOf(kind, f) ==
    LET fs == AllFields(kind)
    IN  fs[CHOOSE i \in 1..Len(fs) : fs[i].field = f]

\* the options value with every field at its zero value
ZeroOptions(kind) == [f \in FieldNames(kind) |-> ZeroOf(FieldOf(kind, f).kind)]

(***************************************************************************)
(* github.com/google/go-querystring: query.Values                          *)
(***************************************************************************)
isEmptyValue(kind, x) ==
    CASE kind = "string" -> Len(x) = 0
      [] kind = "slice" -> Len(x) = 0
      [] kind = "uint" -> x = 0
      [] kind = "bool" -> ~x

valueString(kind, x) ==
    CASE kind = "string" -> x
      [] kind = "uint" -> FormatUint(x)
      [] kind = "bool" -> IF x THEN "true" ELSE "false"

RECURSIVE addEach(_, _, _)
addEach(v, name, xs) ==
    IF xs = <<>> THEN v
    ELSE addEach(Add(v, name, valueString("string", Head(xs))), name, Tail(xs))

\* a plausible slip: a bracketed slice is added under the bare key
addFieldNoBrackets(v, fd, x) ==
    IF fd.omitempty /\ isEmptyValue(fd.kind, x) THEN v
    ELSE IF fd.kind = "slice" THEN addEach(v, fd.name, x)
    ELSE Add(v, fd.name, valueString(fd.kind, x))

\* a plausible slip: false is not taken to be empty, so omitempty keeps it
addFieldFalseKept(v, fd, x) ==
    IF fd.omitempty /\ fd.kind # "bool" /\ isEmptyValue(fd.kind, x) THEN v
    ELSE IF fd.kind = "slice"
         THEN addEach(v, IF fd.brackets THEN fd.name \o "[]" ELSE fd.name, x)
         ELSE Add(v, fd.name, valueString(fd.kind, x))

\* one field of the struct: skipped when empty and tagged omitempty; a slice
\* tagged brackets adds one value per element under "name[]"
addField(v, fd, x) ==
    IF fd.omitempty /\ isEmptyValue(fd.kind, x) THEN v
    ELSE IF fd.kind = "slice"
         THEN addEach(v, IF fd.brackets THEN fd.name \o "[]" ELSE fd.name, x)
         ELSE Add(v, fd.name, valueString(fd.kind, x))

RECURSIVE reflectValue(_, _, _)
reflectValue(v, fields, o) ==
    IF fields = <<>> THEN v
    ELSE reflectValue(addField(v, Head(fields), o[Head(fields).field]),
                      Tail(fields), o)

\* query.Values(o); it fails only for a value that is not a struct, which no
\* caller in this file passes
Values(kind, o) == reflectValue(EmptyValues, AllFields(kind), o)


(***************************************************************************)
(* net/url: ParseQuery, the inverse the round trip of a query string is    *)
(* measured against.                                                       *)
(***************************************************************************)
HexDigits == "0123456789ABCDEFabcdef"

ishex(c) == Contains(HexDigits, c)

unhex(c) ==
    LET i == IndexIn(c, HexDigits)
    IN  IF i <= 16 THEN i - 1 ELSE i - 7

\* strings.Cut: the text before the first sep and the text after it
RECURSIVE cutBefore(_, _)
cutBefore(s, sep) ==
    IF s = "" \/ Head(s) = sep THEN "" ELSE Head(s) \o cutBefore(Tail(s), sep)

RECURSIVE cutAfter(_, _)
cutAfter(s, sep) ==
    IF s = "" THEN ""
    ELSE IF Head(s) = sep THEN Tail(s)
    ELSE cutAfter(Tail(s), sep)

\* whether every "%" is followed by two hexadecimal digits
RECURSIVE validEscapes(_)
validEscapes(s) ==
    IF s = "" THEN TRUE
    ELSE IF Head(s) = "%"
         THEN /\ Len(s) >= 3
              /\ ishex(CharAt(s, 2))
              /\ ishex(CharAt(s, 3))
              /\ validEscapes(SubSeq(s, 4, Len(s)))
         ELSE validEscapes(Tail(s))

RECURSIVE unescape(_)
unescape(s) ==
    IF s = "" THEN ""
    ELSE IF Head(s) = "%"
         THEN Chr(16 * unhex(CharAt(s, 2)) + unhex(CharAt(s, 3)))
                  \o unescape(SubSeq(s, 4, Len(s)))
    ELSE IF Head(s) = "+" THEN " " \o unescape(Tail(s))
    ELSE Head(s) \o unescape(Tail(s))

\* url.ParseQuery: [values |-> the url.Values read, err |-> whether a pair
\* was malformed]
RECURSIVE parseQuery(_, _, _)
parseQuery(m, err, query) ==
    IF query = "" THEN [values |-> m, err |-> err]
    ELSE LET pair  == cutBefore(query, "&")
             rest  == cutAfter(query, "&")
             key   == cutBefore(pair, "=")
             value == cutAfter(pair, "=")
         IN  IF Contains(pair, ";") THEN parseQuery(m, TRUE, rest)
             ELSE IF pair = "" THEN parseQuery(m, err, rest)
             ELSE IF ~validEscapes(key) \/ ~validEscapes(value)
                  THEN parseQuery(m, TRUE, rest)
             ELSE parseQuery(Add(m, unescape(key), unescape(value)), err, rest)

ParseQuery(query) == parseQuery(EmptyValues, FALSE, query)


(***************************************************************************)
(* Requests.  A request is what a method hands to the gateway: the verb    *)
(* (c.get, c.post or c.put), the context, the path, the body and the       *)
(* headers.                                                                *)
(***************************************************************************)
Background == "Background"     \* context.Background()

NoBody == [none |-> TRUE]      \* c.get takes no body

NoHeaders == [k \in {} |-> ""] \* a nil header map, and c.get which takes none

Headers(from) == [k \in {"From"} |-> from]

Get(ctx, path) ==
    [verb |-> "get", ctx |-> ctx, path |-> path, body |-> NoBody, headers |-> NoHeaders]

Post(ctx, path, body, headers) ==
    [verb |-> "post", ctx |-> ctx, path |-> path, body |-> body, headers |-> headers]

Put(ctx, path, body, headers) ==
    [verb |-> "put", ctx |-> ctx, path |-> path, body |-> body, headers |-> headers]

\* ListIncidentsWithContext, up to the gateway call
ListIncidentsWithContextReq(ctx, o, iter) ==
    Get(ctx, "/incidents?" \o Encode(Values("ListIncidentsOptions", o), iter))

\* CreateIncidentWithContext, up to the gateway call
CreateIncidentWithContextReq(ctx, from, o) ==
    Post(ctx, "/incidents", [incident |-> o], Headers(from))

\* a plausible slip: the list is wrapped under the singular key
ManageIncidentsSingular(ctx, from, incidents) ==
    Put(ctx, "/incidents", [incident |-> incidents], Headers(from))

\* ManageIncidentsWithContext, up to the gateway call
ManageIncidentsWithContextReq(ctx, from, incidents) ==
    Put(ctx, "/incidents", [incidents |-> incidents], Headers(from))

\* a plausible slip: the merge is addressed to the first source
MergeIncidentsIntoSource(ctx, from, id, sourceIncidents) ==
    Put(ctx,
        "/incidents/" \o (IF sourceIncidents = <<>> THEN id ELSE sourceIncidents[1].ID)
            \o "/merge",
        [source_incidents |-> sourceIncidents], Headers(from))

\* MergeIncidentsWithContext, up to the gateway call
MergeIncidentsWithContextReq(ctx, from, id, sourceIncidents) ==
    Put(ctx, "/incidents/" \o id \o "/merge",
        [source_incidents |-> sourceIncidents], Headers(from))

\* GetIncidentWithContext, up to the gateway call
GetIncidentWithContextReq(ctx, id) == Get(ctx, "/incidents/" \o id)

\* ListIncidentNotesWithContext, up to the gateway call
ListIncidentNotesWithContextReq(ctx, id) == Get(ctx, "/incidents/" \o id \o "/notes")

\* ListIncidentAlertsWithContext, up to the gateway call
ListIncidentAlertsWithContextReq(ctx, id, o, iter) ==
    Get(ctx, "/incidents/" \o id \o "/alerts?"
                 \o Encode(Values("ListIncidentAlertsOptions", o), iter))

\* CreateIncidentNoteWithContext, up to the gateway call
CreateIncidentNoteWithContextReq(ctx, id, note) ==
    Post(ctx, "/incidents/" \o id \o "/notes", [note |-> note],
         Headers(note.User.Summary))

\* a plausible slip: the deprecated method forgets the From header
CreateIncidentNoteNoFrom(id, note) ==
    Post(Background, "/incidents/" \o id \o "/notes", [note |-> note], NoHeaders)

\* the deprecated CreateIncidentNote, up to the gateway call
CreateIncidentNoteReq(id, note) ==
    Post(Background, "/incidents/" \o id \o "/notes", [note |-> note],
         Headers(note.User.Summary))

\* SnoozeIncidentWithContext, up to the gateway call: the headers are nil
SnoozeIncidentWithContextReq(ctx, id, duration) ==
    Post(ctx, "/incidents/" \o id \o "/snooze", [duration |-> duration], NoHeaders)

\* the deprecated SnoozeIncident, up to the gateway call
SnoozeIncidentReq(id, duration) ==
    Post(Background, "/incidents/" \o id \o "/snooze", [duration |-> duration],
         NoHeaders)

\* ListIncidentLogEntriesWithContext, up to the gateway call
ListIncidentLogEntriesWithContextReq(ctx, id, o, iter) ==
    Get(ctx, "/incidents/" \o id \o "/log_entries?"
                 \o Encode(Values("ListIncidentLogEntriesOptions", o), iter))

\* ResponderRequestWithContext, up to the gateway call; From is tagged json:"-"
\* and so is not part of the body
ResponderRequestWithContextReq(ctx, id, o) ==
    Post(ctx, "/incidents/" \o id \o "/responder_requests",
         [message |-> o.Message, requester_id |-> o.RequesterID,
          responder_request_targets |-> o.Targets],
         Headers(o.From))

\* the unexported getIncidentAlertWithContext, up to the gateway call
getIncidentAlertWithContextReq(ctx, incidentID, alertID) ==
    Get(ctx, "/incidents/" \o incidentID \o "/alerts/" \o alertID)

\* GetIncidentAlertWithContext: the caller's ctx is dropped for Background
GetIncidentAlertWithContextReq(ctx, incidentID, alertID) ==
    getIncidentAlertWithContextReq(Background, incidentID, alertID)

\* the unexported manageIncidentAlertsWithContext, up to the gateway call:
\* the path ends in "/" and the headers are nil
manageIncidentAlertsWithContextReq(ctx, incidentID, alerts) ==
    Put(ctx, "/incidents/" \o incidentID \o "/alerts/", alerts, NoHeaders)

\* ManageIncidentAlertsWithContext: the caller's ctx is dropped for Background
ManageIncidentAlertsWithContextReq(ctx, incidentID, alerts) ==
    manageIncidentAlertsWithContextReq(Background, incidentID, alerts)


(***************************************************************************)
(* JSON values and c.decodeJSON.  A response body is either not JSON at    *)
(* all or a JSON object; a JSON value carries its JSON type.               *)
(***************************************************************************)
NotJSON == [t |-> "invalid", v |-> [k \in {} |-> ""]]

JStr(x) == [t |-> "string", v |-> x]

JNum(x) == [t |-> "number", v |-> x]

JBool(x) == [t |-> "bool", v |-> x]

JArr(x) == [t |-> "array", v |-> x]

JObj(x) == [t |-> "object", v |-> x]

\* a pointer or a slice is nil or refers to a value
Nil == <<>>

Some(x) == <<x>>

\* errors: a kind and, for an HTTP status error, the status code
Err(kind, code) == [kind |-> kind, code |-> code]

NoError == Err("nil", 0)

\* a member of a JSON object read into a Go field: absent leaves the zero value
member(j, key, zero) == IF key \in DOMAIN j.v THEN j.v[key].v ELSE zero

ZeroIncident == [Id |-> "", Status |-> "", Title |-> ""]

decodeIncident(j) ==
    [Id |-> member(j, "id", ""), Status |-> member(j, "status", ""),
     Title |-> member(j, "title", "")]

ZeroIncidentNote == [ID |-> "", Content |-> ""]

decodeIncidentNote(j) ==
    [ID |-> member(j, "id", ""), Content |-> member(j, "content", "")]

decodeIncidentAlert(j) ==
    [Status |-> member(j, "status", ""), AlertKey |-> member(j, "alert_key", "")]

decodeLogEntry(j) == [CreatedAt |-> member(j, "created_at", "")]

ZeroResponderRequest == [Incident |-> ZeroIncident, Message |-> ""]

decodeResponderRequest(j) ==
    [Incident |-> IF "incident" \in DOMAIN j.v
                  THEN decodeIncident(j.v["incident"]) ELSE ZeroIncident,
     Message |-> member(j, "message", "")]

\* the Go types responses are decoded into: the JSON type each accepts, its
\* zero value, and how a JSON value of that type is read
JSONTypeOf(type) ==
    CASE type \in {"Incident", "IncidentNote", "*IncidentAlert", "ResponderRequest"}
             -> "object"
      [] type \in {"[]Incident", "[]IncidentNote", "[]IncidentAlert", "[]LogEntry"}
             -> "array"
      [] type = "uint" -> "number"
      [] type = "bool" -> "bool"

ZeroValue(type) ==
    CASE type = "Incident" -> ZeroIncident
      [] type = "IncidentNote" -> ZeroIncidentNote
      [] type = "ResponderRequest" -> ZeroResponderRequest
      [] type \in {"*IncidentAlert", "[]Incident", "[]IncidentNote",
                   "[]IncidentAlert", "[]LogEntry"} -> Nil
      [] type = "uint" -> 0
      [] type = "bool" -> FALSE

decodeValue(type, j) ==
    CASE type = "Incident" -> decodeIncident(j)
      [] type = "IncidentNote" -> decodeIncidentNote(j)
      [] type = "*IncidentAlert" -> Some(decodeIncidentAlert(j))
      [] type = "ResponderRequest" -> decodeResponderRequest(j)
      [] type = "[]Incident" -> Some([i \in 1..Len(j.v) |-> decodeIncident(j.v[i])])
      [] type = "[]IncidentNote" -> Some([i \in 1..Len(j.v) |-> decodeIncidentNote(j.v[i])])
      [] type = "[]IncidentAlert" -> Some([i \in 1..Len(j.v) |-> decodeIncidentAlert(j.v[i])])
      [] type = "[]LogEntry" -> Some([i \in 1..Len(j.v) |-> decodeLogEntry(j.v[i])])
      [] type \in {"uint", "bool"} -> j.v

\* a struct field with its json tag
JFld(field, key, type) == [field |-> field, key |-> key, type |-> type]

\* the pagination metadata every list response embeds
APIListObjectJSON ==
    << JFld("Limit", "limit", "uint"), JFld("Offset", "offset", "uint"),
       JFld("More", "more", "bool"), JFld("Total", "total", "uint") >>

ListIncidentsResponse ==
    APIListObjectJSON \o << JFld("Incidents", "incidents", "[]Incident") >>

createIncidentResponse == << JFld("Incident", "incident", "Incident") >>

CreateIncidentNoteResponse == << JFld("IncidentNote", "note", "IncidentNote") >>

IncidentAlertResponse == << JFld("IncidentAlert", "alert", "*IncidentAlert") >>

ListAlertsResponse ==
    APIListObjectJSON \o << JFld("Alerts", "alerts", "[]IncidentAlert") >>

ListIncidentLogEntriesResponse ==
    APIListObjectJSON \o << JFld("LogEntries", "log_entries", "[]LogEntry") >>

ResponderRequestResponse ==
    << JFld("ResponderRequest", "responder_request", "ResponderRequest") >>

DecodeError == Err("DecodeError", 0)

\* c.decodeJSON into a struct: a body that is not JSON, or a member whose JSON
\* type the field does not accept, is an error; members the struct does not
\* name are ignored and fields the body does not name keep their zero value
decodeStruct(body, fields) ==
    LET idx == 1..Len(fields)
    IN  IF body.t = "invalid" THEN [err |-> DecodeError, val |-> Nil]
        ELSE IF \E i \in idx : /\ fields[i].key \in DOMAIN body.v
                               /\ body.v[fields[i].key].t # JSONTypeOf(fields[i].type)
             THEN [err |-> DecodeError, val |-> Nil]
        ELSE [err |-> NoError,
              val |-> [f \in {fields[i].field : i \in idx} |->
                         LET fd == fields[CHOOSE i \in idx : fields[i].field = f]
                         IN  IF fd.key \in DOMAIN body.v
                             THEN decodeValue(fd.type, body.v[fd.key])
                             ELSE ZeroValue(fd.type)]]

\* c.decodeJSON into a map[string]T: every member must have T's JSON type
decodeMap(body, type) ==
    IF body.t = "invalid" THEN [err |-> DecodeError, val |-> Nil]
    ELSE IF \E k \in DOMAIN body.v : body.v[k].t # JSONTypeOf(type)
         THEN [err |-> DecodeError, val |-> Nil]
    ELSE [err |-> NoError, val |-> [k \in DOMAIN body.v |-> decodeValue(type, body.v[k])]]


(***************************************************************************)
(* Returns.  out is what the gateway call gave back: [err, body].  Each    *)
(* operator is the part of the method that follows the gateway call.       *)
(***************************************************************************)
Result(value, err) == [value |-> value, err |-> err]

\* the methods that also return the *http.Response
ResultResp(value, resp, err) == [value |-> value, resp |-> resp, err |-> err]

\* the deprecated methods that return only an error
ResultErr(err) == [err |-> err]

\* fmt.Errorf("JSON response does not have ... field")
MissingEnvelopeKey == Err("MissingEnvelopeKey", 0)

\* a plausible slip: the gateway's error is dropped and the zero page returned
ListIncidentsSwallow(out) ==
    LET result == decodeStruct(out.body, ListIncidentsResponse)
    IN  IF out.err # NoError \/ result.err # NoError
        THEN Result(Some(decodeStruct(JObj([k \in {} |-> ""]), ListIncidentsResponse).val),
                    NoError)
        ELSE Result(Some(result.val), NoError)

ListIncidentsWithContextRet(out) ==
    IF out.err # NoError THEN Result(Nil, out.err)
    ELSE LET result == decodeStruct(out.body, ListIncidentsResponse)
         IN  IF result.err # NoError THEN Result(Nil, result.err)
             ELSE Result(Some(result.val), NoError)

CreateIncidentWithContextRet(out) ==
    IF out.err # NoError THEN Result(Nil, out.err)
    ELSE LET ii == decodeStruct(out.body, createIncidentResponse)
         IN  IF ii.err # NoError THEN Result(Nil, ii.err)
             ELSE Result(Some(ii.val.Incident), NoError)

ManageIncidentsWithContextRet(out) ==
    IF out.err # NoError THEN Result(Nil, out.err)
    ELSE LET result == decodeStruct(out.body, ListIncidentsResponse)
         IN  IF result.err # NoError THEN Result(Nil, result.err)
             ELSE Result(Some(result.val), NoError)

MergeIncidentsWithContextRet(out) ==
    IF out.err # NoError THEN Result(Nil, out.err)
    ELSE LET result == decodeStruct(out.body, createIncidentResponse)
         IN  IF result.err # NoError THEN Result(Nil, result.err)
             ELSE Result(Some(result.val.Incident), NoError)

\* decodes into a map and checks for the "incident" key itself
GetIncidentWithContextRet(out) ==
    IF out.err # NoError THEN Result(Nil, out.err)
    ELSE LET result == decodeMap(out.body, "Incident")
         IN  IF result.err # NoError THEN Result(Nil, result.err)
             ELSE IF "incident" \notin DOMAIN result.val
                  THEN Result(Nil, MissingEnvelopeKey)
             ELSE Result(Some(result.val["incident"]), NoError)

\* decodes into a map and checks for the "notes" key itself
ListIncidentNotesWithContextRet(out) ==
    IF out.err # NoError THEN Result(Nil, out.err)
    ELSE LET result == decodeMap(out.body, "[]IncidentNote")
         IN  IF result.err # NoError THEN Result(Nil, result.err)
             ELSE IF "notes" \notin DOMAIN result.val
                  THEN Result(Nil, MissingEnvelopeKey)
             ELSE Result(result.val["notes"], NoError)

\* its last line returns err, which is nil there
ListIncidentAlertsWithContextRet(out) ==
    IF out.err # NoError THEN Result(Nil, out.err)
    ELSE LET result == decodeStruct(out.body, ListAlertsResponse)
         IN  IF result.err # NoError THEN Result(Nil, result.err)
             ELSE Result(Some(result.val), result.err)

CreateIncidentNoteWithContextRet(out) ==
    IF out.err # NoError THEN Result(Nil, out.err)
    ELSE LET result == decodeStruct(out.body, CreateIncidentNoteResponse)
         IN  IF result.err # NoError THEN Result(Nil, result.err)
             ELSE Result(Some(result.val.IncidentNote), NoError)

\* the deprecated CreateIncidentNote: the response is not decoded
CreateIncidentNoteRet(out) == ResultErr(out.err)

SnoozeIncidentWithContextRet(out) ==
    IF out.err # NoError THEN Result(Nil, out.err)
    ELSE LET result == decodeStruct(out.body, createIncidentResponse)
         IN  IF result.err # NoError THEN Result(Nil, result.err)
             ELSE Result(Some(result.val.Incident), NoError)

\* the deprecated SnoozeIncident: the response is not decoded
SnoozeIncidentRet(out) == ResultErr(out.err)

ListIncidentLogEntriesWithContextRet(out) ==
    IF out.err # NoError THEN Result(Nil, out.err)
    ELSE LET result == decodeStruct(out.body, ListIncidentLogEntriesResponse)
         IN  IF result.err # NoError THEN Result(Nil, result.err)
             ELSE Result(Some(result.val), NoError)

ResponderRequestWithContextRet(out) ==
    IF out.err # NoError THEN Result(Nil, out.err)
    ELSE LET result == decodeStruct(out.body, ResponderRequestResponse)
         IN  IF result.err # NoError THEN Result(Nil, result.err)
             ELSE Result(Some(result.val), NoError)

getIncidentAlertWithContextRet(out) ==
    IF out.err # NoError THEN ResultResp(Nil, Nil, out.err)
    ELSE LET result == decodeStruct(out.body, IncidentAlertResponse)
         IN  IF result.err # NoError THEN ResultResp(Nil, Nil, result.err)
             ELSE ResultResp(Some(result.val), Some(out.body), NoError)

\* GetIncidentAlertWithContext drops the *http.Response
GetIncidentAlertWithContextRet(out) ==
    LET r == getIncidentAlertWithContextRet(out)
    IN  Result(r.value, r.err)

manageIncidentAlertsWithContextRet(out) ==
    IF out.err # NoError THEN ResultResp(Nil, Nil, out.err)
    ELSE LET result == decodeStruct(out.body, ListAlertsResponse)
         IN  IF result.err # NoError THEN ResultResp(Nil, Nil, result.err)
             ELSE ResultResp(Some(result.val), Some(out.body), NoError)

\* ManageIncidentAlertsWithContext drops the *http.Response
ManageIncidentAlertsWithContextRet(out) ==
    LET r == manageIncidentAlertsWithContextRet(out)
    IN  Result(r.value, r.err)


(***************************************************************************)
(* The methods without a context parameter: each calls its WithContext     *)
(* counterpart with context.Background().                                  *)
(***************************************************************************)
ListIncidentsReq(o, iter) == ListIncidentsWithContextReq(Background, o, iter)

CreateIncidentReq(from, o) == CreateIncidentWithContextReq(Background, from, o)

ManageIncidentsReq(from, incidents) ==
    ManageIncidentsWithContextReq(Background, from, incidents)

MergeIncidentsReq(from, id, sourceIncidents) ==
    MergeIncidentsWithContextReq(Background, from, id, sourceIncidents)

GetIncidentReq(id) == GetIncidentWithContextReq(Background, id)

ListIncidentNotesReq(id) == ListIncidentNotesWithContextReq(Background, id)

ListIncidentAlertsReq(id, iter) ==
    ListIncidentAlertsWithContextReq(Background, id,
                                     ZeroOptions("ListIncidentAlertsOptions"), iter)

ListIncidentAlertsWithOptsReq(id, o, iter) ==
    ListIncidentAlertsWithContextReq(Background, id, o, iter)

CreateIncidentNoteWithResponseReq(id, note) ==
    CreateIncidentNoteWithContextReq(Background, id, note)

SnoozeIncidentWithResponseReq(id, duration) ==
    SnoozeIncidentWithContextReq(Background, id, duration)

ListIncidentLogEntriesReq(id, o, iter) ==
    ListIncidentLogEntriesWithContextReq(Background, id, o, iter)

ResponderRequestReq(id, o) == ResponderRequestWithContextReq(Background, id, o)

GetIncidentAlertReq(incidentID, alertID) ==
    getIncidentAlertWithContextReq(Background, incidentID, alertID)

ManageIncidentAlertsReq(incidentID, alerts) ==
    manageIncidentAlertsWithContextReq(Background, incidentID, alerts)

(***************************************************************************)
(* An invocation names the method called and carries its arguments.        *)
(***************************************************************************)
\* the options struct a list method encodes
OptionKindOf(op) ==
    CASE op \in {"ListIncidents", "ListIncidentsWithContext"} -> "ListIncidentsOptions"
      [] op \in {"ListIncidentAlerts", "ListIncidentAlertsWithOpts",
                 "ListIncidentAlertsWithContext"} -> "ListIncidentAlertsOptions"
      [] op \in {"ListIncidentLogEntries", "ListIncidentLogEntriesWithContext"}
             -> "ListIncidentLogEntriesOptions"

ListOps ==
    {"ListIncidents", "ListIncidentsWithContext", "ListIncidentAlerts",
     "ListIncidentAlertsWithOpts", "ListIncidentAlertsWithContext",
     "ListIncidentLogEntries", "ListIncidentLogEntriesWithContext"}

\* the options value a list method encodes
OptionsOf(inv) ==
    IF inv.op = "ListIncidentAlerts" THEN ZeroOptions("ListIncidentAlertsOptions")
    ELSE inv.o

\* the request the method hands to the gateway
Request(inv, iter) ==
    CASE inv.op = "ListIncidents" -> ListIncidentsReq(inv.o, iter)
      [] inv.op = "ListIncidentsWithContext" ->
             ListIncidentsWithContextReq(inv.ctx, inv.o, iter)
      [] inv.op = "CreateIncident" -> CreateIncidentReq(inv.from, inv.create)
      [] inv.op = "CreateIncidentWithContext" ->
             CreateIncidentWithContextReq(inv.ctx, inv.from, inv.create)
      [] inv.op = "ManageIncidents" -> ManageIncidentsReq(inv.from, inv.incidents)
      [] inv.op = "ManageIncidentsWithContext" ->
             ManageIncidentsWithContextReq(inv.ctx, inv.from, inv.incidents)
      [] inv.op = "MergeIncidents" ->
             MergeIncidentsReq(inv.from, inv.id, inv.sourceIncidents)
      [] inv.op = "MergeIncidentsWithContext" ->
             MergeIncidentsWithContextReq(inv.ctx, inv.from, inv.id, inv.sourceIncidents)
      [] inv.op = "GetIncident" -> GetIncidentReq(inv.id)
      [] inv.op = "GetIncidentWithContext" -> GetIncidentWithContextReq(inv.ctx, inv.id)
      [] inv.op = "ListIncidentNotes" -> ListIncidentNotesReq(inv.id)
      [] inv.op = "ListIncidentNotesWithContext" ->
             ListIncidentNotesWithContextReq(inv.ctx, inv.id)
      [] inv.op = "ListIncidentAlerts" -> ListIncidentAlertsReq(inv.id, iter)
      [] inv.op = "ListIncidentAlertsWithOpts" ->
             ListIncidentAlertsWithOptsReq(inv.id, inv.o, iter)
      [] inv.op = "ListIncidentAlertsWithContext" ->
             ListIncidentAlertsWithContextReq(inv.ctx, inv.id, inv.o, iter)
      [] inv.op = "CreateIncidentNoteWithResponse" ->
             CreateIncidentNoteWithResponseReq(inv.id, inv.note)
      [] inv.op = "CreateIncidentNoteWithContext" ->
             CreateIncidentNoteWithContextReq(inv.ctx, inv.id, inv.note)
      [] inv.op = "CreateIncidentNote" -> CreateIncidentNoteReq(inv.id, inv.note)
      [] inv.op = "SnoozeIncidentWithResponse" ->
             SnoozeIncidentWithResponseReq(inv.id, inv.duration)
      [] inv.op = "SnoozeIncidentWithContext" ->
             SnoozeIncidentWithContextReq(inv.ctx, inv.id, inv.duration)
      [] inv.op = "SnoozeIncident" -> SnoozeIncidentReq(inv.id, inv.duration)
      [] inv.op = "ListIncidentLogEntries" ->
             ListIncidentLogEntriesReq(inv.id, inv.o, iter)
      [] inv.op = "ListIncidentLogEntriesWithContext" ->
             ListIncidentLogEntriesWithContextReq(inv.ctx, inv.id, inv.o, iter)
      [] inv.op = "ResponderRequest" -> ResponderRequestReq(inv.id, inv.rr)
      [] inv.op = "ResponderRequestWithContext" ->
             ResponderRequestWithContextReq(inv.ctx, inv.id, inv.rr)
      [] inv.op = "GetIncidentAlert" -> GetIncidentAlertReq(inv.id, inv.alertID)
      [] inv.op = "GetIncidentAlertWithContext" ->
             GetIncidentAlertWithContextReq(inv.ctx, inv.id, inv.alertID)
      [] inv.op = "ManageIncidentAlerts" -> ManageIncidentAlertsReq(inv.id, inv.alerts)
      [] inv.op = "ManageIncidentAlertsWithContext" ->
             ManageIncidentAlertsWithContextReq(inv.ctx, inv.id, inv.alerts)

\* what the method returns once the gateway call has given back out
Return(inv, out) ==
    CASE inv.op \in {"ListIncidents", "ListIncidentsWithContext"} ->
             ListIncidentsWithContextRet(out)
      [] inv.op \in {"CreateIncident", "CreateIncidentWithContext"} ->
             CreateIncidentWithContextRet(out)
      [] inv.op \in {"ManageIncidents", "ManageIncidentsWithContext"} ->
             ManageIncidentsWithContextRet(out)
      [] inv.op \in {"MergeIncidents", "MergeIncidentsWithContext"} ->
             MergeIncidentsWithContextRet(out)
      [] inv.op \in {"GetIncident", "GetIncidentWithContext"} ->
             GetIncidentWithContextRet(out)
      [] inv.op \in {"ListIncidentNotes", "ListIncidentNotesWithContext"} ->
             ListIncidentNotesWithContextRet(out)
      [] inv.op \in {"ListIncidentAlerts", "ListIncidentAlertsWithOpts",
                     "ListIncidentAlertsWithContext"} ->
             ListIncidentAlertsWithContextRet(out)
      [] inv.op \in {"CreateIncidentNoteWithResponse", "CreateIncidentNoteWithContext"} ->
             CreateIncidentNoteWithContextRet(out)
      [] inv.op = "CreateIncidentNote" -> CreateIncidentNoteRet(out)
      [] inv.op \in {"SnoozeIncidentWithResponse", "SnoozeIncidentWithContext"} ->
             SnoozeIncidentWithContextRet(out)
      [] inv.op = "SnoozeIncident" -> SnoozeIncidentRet(out)
      [] inv.op \in {"ListIncidentLogEntries", "ListIncidentLogEntriesWithContext"} ->
             ListIncidentLogEntriesWithContextRet(out)
      [] inv.op \in {"ResponderRequest", "ResponderRequestWithContext"} ->
             ResponderRequestWithContextRet(out)
      [] inv.op = "GetIncidentAlert" -> getIncidentAlertWithContextRet(out)
      [] inv.op = "GetIncidentAlertWithContext" -> GetIncidentAlertWithContextRet(out)
      [] inv.op = "ManageIncidentAlerts" -> manageIncidentAlertsWithContextRet(out)
      [] inv.op = "ManageIncidentAlertsWithContext" ->
             ManageIncidentAlertsWithContextRet(out)


(***************************************************************************)
(* The arguments callers pass.                                             *)
(***************************************************************************)
SeqsUpTo(S, n) == UNION {[1..k -> S] : k \in 0..n}

Ids == {"Q1", "Q2"}

Actor == "ops@example.com"

\* a context the caller can cancel, besides context.Background()
Ctxs == {Background, "ctx"}

WithContextOps ==
    {"ListIncidentsWithContext", "CreateIncidentWithContext",
     "ManageIncidentsWithContext", "MergeIncidentsWithContext",
     "GetIncidentWithContext", "ListIncidentNotesWithContext",
     "ListIncidentAlertsWithContext", "CreateIncidentNoteWithContext",
     "SnoozeIncidentWithContext", "ListIncidentLogEntriesWithContext",
     "ResponderRequestWithContext", "GetIncidentAlertWithContext",
     "ManageIncidentAlertsWithContext"}

PlainOps ==
    {"ListIncidents", "CreateIncident", "ManageIncidents", "MergeIncidents",
     "GetIncident", "ListIncidentNotes", "ListIncidentAlerts",
     "ListIncidentAlertsWithOpts", "CreateIncidentNoteWithResponse",
     "CreateIncidentNote", "SnoozeIncidentWithResponse", "SnoozeIncident",
     "ListIncidentLogEntries", "ResponderRequest", "GetIncidentAlert",
     "ManageIncidentAlerts"}

Ops == WithContextOps \cup PlainOps

\* the methods that post or put
WriteOps ==
    {"CreateIncident", "CreateIncidentWithContext", "ManageIncidents",
     "ManageIncidentsWithContext", "MergeIncidents", "MergeIncidentsWithContext",
     "CreateIncidentNoteWithResponse", "CreateIncidentNoteWithContext",
     "CreateIncidentNote", "SnoozeIncidentWithResponse", "SnoozeIncidentWithContext",
     "SnoozeIncident", "ResponderRequest", "ResponderRequestWithContext",
     "ManageIncidentAlerts", "ManageIncidentAlertsWithContext"}

\* []ManageIncidentsOptions
Mutations ==
    {[ID |-> id, Type |-> "incident_reference", Status |-> st] :
        id \in Ids, st \in {"acknowledged", "resolved"}}

\* []MergeIncidentsOptions
SourceIncidents == {[ID |-> id, Type |-> "incident_reference"] : id \in Ids}

CreateOptions ==
    {[Type |-> "incident", Title |-> "db down",
      Service |-> [ID |-> "PSVC", Type |-> "service_reference"]]}

Notes == {[User |-> [Summary |-> Actor], Content |-> "looking into it"]}

Durations == {3600}

ResponderOptions ==
    {[From |-> Actor, Message |-> "please help", RequesterID |-> "PUSER",
      Targets |-> <<[ID |-> "PTGT", Type |-> "user_reference"]>>]}

AlertIDs == {"A1"}

AlertLists == {[Alerts |-> <<[ID |-> "A1", Status |-> "resolved"]>>]}

\* the options values the list methods are called with
SampleOptions(kind) ==
    LET z == ZeroOptions(kind)
    IN  CASE kind = "ListIncidentsOptions" ->
                 {z, [z EXCEPT !.Statuses = <<"triggered", "acknowledged">>,
                               !.Limit = 25, !.Since = "2020-01-01T00:00:00+01:00"]}
          [] kind = "ListIncidentAlertsOptions" ->
                 {z, [z EXCEPT !.Statuses = <<"triggered">>, !.SortBy = "created_at:desc"]}
          [] kind = "ListIncidentLogEntriesOptions" ->
                 {z, [z EXCEPT !.IsOverview = TRUE, !.Includes = <<"incidents">>]}

CtxsOf(op) == IF op \in WithContextOps THEN Ctxs ELSE {Background}

InvocationsOf(op) ==
    LET C == CtxsOf(op)
    IN  CASE op \in {"ListIncidents", "ListIncidentsWithContext"} ->
                 {[op |-> op, ctx |-> c, o |-> o] :
                     c \in C, o \in SampleOptions("ListIncidentsOptions")}
          [] op \in {"CreateIncident", "CreateIncidentWithContext"} ->
                 {[op |-> op, ctx |-> c, from |-> Actor, create |-> o] :
                     c \in C, o \in CreateOptions}
          [] op \in {"ManageIncidents", "ManageIncidentsWithContext"} ->
                 {[op |-> op, ctx |-> c, from |-> Actor, incidents |-> l] :
                     c \in C, l \in SeqsUpTo(Mutations, MaxElems)}
          [] op \in {"MergeIncidents", "MergeIncidentsWithContext"} ->
                 {[op |-> op, ctx |-> c, from |-> Actor, id |-> id, sourceIncidents |-> l] :
                     c \in C, id \in Ids, l \in SeqsUpTo(SourceIncidents, MaxElems)}
          [] op \in {"GetIncident", "GetIncidentWithContext", "ListIncidentNotes",
                     "ListIncidentNotesWithContext", "ListIncidentAlerts"} ->
                 {[op |-> op, ctx |-> c, id |-> id] : c \in C, id \in Ids}
          [] op \in {"ListIncidentAlertsWithOpts", "ListIncidentAlertsWithContext"} ->
                 {[op |-> op, ctx |-> c, id |-> id, o |-> o] :
                     c \in C, id \in Ids, o \in SampleOptions("ListIncidentAlertsOptions")}
          [] op \in {"CreateIncidentNoteWithResponse", "CreateIncidentNoteWithContext",
                     "CreateIncidentNote"} ->
                 {[op |-> op, ctx |-> c, id |-> id, note |-> n] :
                     c \in C, id \in Ids, n \in Notes}
          [] op \in {"SnoozeIncidentWithResponse", "SnoozeIncidentWithContext",
                     "SnoozeIncident"} ->
                 {[op |-> op, ctx |-> c, id |-> id, duration |-> d] :
                     c \in C, id \in Ids, d \in Durations}
          [] op \in {"ListIncidentLogEntries", "ListIncidentLogEntriesWithContext"} ->
                 {[op |-> op, ctx |-> c, id |-> id, o |-> o] :
                     c \in C, id \in Ids,
                     o \in SampleOptions("ListIncidentLogEntriesOptions")}
          [] op \in {"ResponderRequest", "ResponderRequestWithContext"} ->
                 {[op |-> op, ctx |-> c, id |-> id, rr |-> o] :
                     c \in C, id \in Ids, o \in ResponderOptions}
          [] op \in {"GetIncidentAlert", "GetIncidentAlertWithContext"} ->
                 {[op |-> op, ctx |-> c, id |-> id, alertID |-> a] :
                     c \in C, id \in Ids, a \in AlertIDs}
          [] op \in {"ManageIncidentAlerts", "ManageIncidentAlertsWithContext"} ->
                 {[op |-> op, ctx |-> c, id |-> id, alerts |-> a] :
                     c \in C, id \in Ids, a \in AlertLists}

Invocations == UNION {InvocationsOf(op) : op \in Ops}

\* the orders in which the encoder may range over the query values' map
IterationOrdersOf(inv) ==
    IF inv.op \in ListOps
    THEN IterationOrders(Values(OptionKindOf(inv.op), OptionsOf(inv)))
    ELSE {<<>>}

(***************************************************************************)
(* The HTTP gateway (c.get, c.post, c.put): an external collaborator.  It  *)
(* gives back an error, or a response whose body the method decodes.  A    *)
(* call whose context is cancelled is aborted with the context's error.    *)
(***************************************************************************)
JIncident(id) ==
    JObj([id |-> JStr(id), status |-> JStr("triggered"), title |-> JStr("db down")])

JNote == JObj([id |-> JStr("N1"), content |-> JStr("looking into it")])

JAlert == JObj([status |-> JStr("triggered"), alert_key |-> JStr("k1")])

JLogEntry == JObj([created_at |-> JStr("2020-01-01T00:00:00Z")])

JResponderRequest ==
    JObj([incident |-> JIncident("Q1"), message |-> JStr("please help")])

\* a list response: the items under key, and the pagination metadata
JPage(key, items) ==
    JObj((key :> JArr(items)) @@
         [offset |-> JNum(0), limit |-> JNum(25), more |-> JBool(FALSE)])

\* the bodies the service answers with
Bodies ==
    { NotJSON,
      JObj([k \in {} |-> ""]),
      JObj([incident |-> JIncident("Q1")]),
      JObj([incident |-> JIncident("Q2")]),
      JPage("incidents", <<>>),
      JPage("incidents", <<JIncident("Q1")>>),
      JPage("incidents", <<JIncident("Q2"), JIncident("Q1")>>),
      JObj([note |-> JNote]),
      JObj([notes |-> JArr(<<JNote>>)]),
      JObj([alert |-> JAlert]),
      JPage("alerts", <<JAlert>>),
      JPage("log_entries", <<JLogEntry>>),
      JObj([responder_request |-> JResponderRequest]) }

TransportError == Err("TransportError", 0)

HTTPStatusError(code) == Err("HTTPStatusError", code)

Cancelled == Err("Cancelled", 0)

DeadlineExceeded == Err("DeadlineExceeded", 0)

GatewayErrors == {TransportError, HTTPStatusError(404), HTTPStatusError(500)}

ContextErrors == {Cancelled, DeadlineExceeded}

\* what a gateway call may give back, given the state ctxErr of the caller's
\* context: the gateway watches the context it was handed, req.ctx
GatewayOutcomes(req, ctxErr) ==
    IF req.ctx # Background /\ ctxErr # NoError
    THEN {[err |-> ctxErr, body |-> NotJSON]}
    ELSE {[err |-> e, body |-> NotJSON] : e \in GatewayErrors}
             \cup {[err |-> NoError, body |-> b] : b \in Bodies}


(***************************************************************************)
(* Method calls.  A caller invokes a method, which issues its gateway      *)
(* call; while the call is in flight the caller may cancel its context;    *)
(* the gateway gives back an outcome and the method returns.               *)
(***************************************************************************)
\* a plausible slip: one PUT per mutation instead of one PUT for the list
GatewayCallsFanOut(inv, iter) ==
    IF inv.op \in {"ManageIncidents", "ManageIncidentsWithContext"}
    THEN [i \in 1..Len(inv.incidents) |->
            Put(inv.ctx, "/incidents/" \o inv.incidents[i].ID,
                [incident |-> inv.incidents[i]], Headers(inv.from))]
    ELSE <<Request(inv, iter)>>

\* the gateway calls a method issues, in order: every method issues one
GatewayCalls(inv, iter) == <<Request(inv, iter)>>

NoInvocation == [op |-> "none", ctx |-> Background]

\* pc: "idle", "calling" (a gateway call is in flight) or "returned"
\* inv: the invocation;  ctxErr: the error of the caller's context (NoError
\* until it is cancelled or its deadline passes);  reqs: the gateway calls
\* issued so far;  pending: those still to issue;  outs: what the gateway
\* gave back;  ret: the method's return values, once it has returned
IdleCall ==
    [pc |-> "idle", inv |-> NoInvocation, ctxErr |-> NoError, cancelledInFlight |-> FALSE,
     reqs |-> <<>>, pending |-> <<>>, outs |-> <<>>, ret |-> <<>>]

Callers == DOMAIN call

\* a plausible slip: the headers are kept in a map held by the Client, so a
\* call that sets none sends the From another call in flight has left there
InvokeSharedHeaders(c, inv, iter) ==
    /\ call[c].pc = "idle"
    /\ LET own    == GatewayCalls(inv, iter)
           others == {d \in Callers \ {c} :
                         /\ call[d].pc = "calling"
                         /\ "From" \in DOMAIN call[d].reqs[1].headers}
           calls  == [i \in 1..Len(own) |->
                         IF others # {} /\ "From" \notin DOMAIN own[i].headers
                         THEN [own[i] EXCEPT !.headers =
                                   call[CHOOSE d \in others : TRUE].reqs[1].headers]
                         ELSE own[i]]
       IN  call' = [call EXCEPT ![c] =
                [IdleCall EXCEPT !.pc = "calling", !.inv = inv,
                                 !.reqs = <<Head(calls)>>,
                                 !.pending = Tail(calls)]]
    /\ UNCHANGED <<qkind, qid, qopts, qenc>>

Invoke(c, inv, iter) ==
    /\ call[c].pc = "idle"
    /\ LET calls == GatewayCalls(inv, iter)
       IN  call' = [call EXCEPT ![c] =
                IF calls = <<>>
                THEN [IdleCall EXCEPT !.pc = "returned", !.inv = inv,
                                      !.ret = <<Return(inv, [err |-> NoError, body |-> NotJSON])>>]
                ELSE [IdleCall EXCEPT !.pc = "calling", !.inv = inv,
                                      !.reqs = <<Head(calls)>>,
                                      !.pending = Tail(calls)]]
    /\ UNCHANGED <<qkind, qid, qopts, qenc>>

\* the caller cancels its context, or the context's deadline passes
Cancel(c, e) ==
    /\ call[c].pc = "calling"
    /\ call[c].inv.ctx # Background
    /\ call[c].ctxErr = NoError
    /\ call' = [call EXCEPT ![c].ctxErr = e, ![c].cancelledInFlight = TRUE]
    /\ UNCHANGED <<qkind, qid, qopts, qenc>>

\* the gateway call of caller c that is in flight, as a set
InFlight(c) ==
    IF call[c].pc = "calling" THEN {call[c].reqs[Len(call[c].reqs)]} ELSE {}

\* what the gateway may give back to caller c now
OutcomesFor(c) == UNION {GatewayOutcomes(req, call[c].ctxErr) : req \in InFlight(c)}

\* the gateway call in flight gives back out; the method goes on to its end
Complete(c, out) ==
    /\ call[c].pc = "calling"
    /\ out \in OutcomesFor(c)
    /\ call' = [call EXCEPT ![c] =
            IF call[c].pending # <<>>
            THEN [@ EXCEPT !.outs = Append(@, out),
                           !.reqs = Append(@, Head(call[c].pending)),
                           !.pending = Tail(@)]
            ELSE [@ EXCEPT !.pc = "returned",
                           !.outs = Append(@, out),
                           !.ret = <<Return(call[c].inv, out)>>]]
    /\ UNCHANGED <<qkind, qid, qopts, qenc>>

\* the caller is done with the values returned and may call again
Forget(c) ==
    /\ call[c].pc = "returned"
    /\ call' = [call EXCEPT ![c] = IdleCall]
    /\ UNCHANGED <<qkind, qid, qopts, qenc>>

Init ==
    /\ call = [c \in {"c1"} |-> IdleCall]
    /\ qkind = "none"
    /\ qid = ""
    /\ qopts = <<>>
    /\ qenc = <<>>

Next ==
    \/ \E c \in Callers, inv \in Invocations :
           \E iter \in IterationOrdersOf(inv) : Invoke(c, inv, iter)
    \/ \E c \in Callers, e \in ContextErrors : Cancel(c, e)
    \/ \E c \in Callers : \E out \in OutcomesFor(c) : Complete(c, out)
    \/ \E c \in Callers : Forget(c)

Spec == Init /\ [][Next]_vars

(***************************************************************************)
(* Two callers use one Client at the same time: reads and writes of the    *)
(* same incident, started and finished in any order.                       *)
(***************************************************************************)
ConcurrentOps ==
    {"ManageIncidentsWithContext", "MergeIncidentsWithContext",
     "SnoozeIncidentWithContext", "GetIncidentWithContext"}

\* calls about incident Q1 (and a read of Q2), each with a cancellable context
ConcurrentInvocations ==
    {inv \in UNION {InvocationsOf(op) : op \in ConcurrentOps} :
        /\ inv.ctx # Background
        /\ CASE inv.op = "ManageIncidentsWithContext" ->
                    Len(inv.incidents) = 1 /\ inv.incidents[1].ID = "Q1"
             [] inv.op = "MergeIncidentsWithContext" ->
                    /\ inv.id = "Q1"
                    /\ Len(inv.sourceIncidents) = 1
                    /\ inv.sourceIncidents[1].ID = "Q2"
             [] inv.op = "SnoozeIncidentWithContext" -> inv.id = "Q1"
             [] OTHER -> TRUE}

InitConcurrent ==
    /\ call = [c \in {"c1", "c2"} |-> IdleCall]
    /\ qkind = "none"
    /\ qid = ""
    /\ qopts = <<>>
    /\ qenc = <<>>

NextConcurrent ==
    \/ \E c \in Callers, inv \in ConcurrentInvocations :
           \E iter \in IterationOrdersOf(inv) : Invoke(c, inv, iter)
    \/ \E c \in Callers, e \in ContextErrors : Cancel(c, e)
    \/ \E c \in Callers : \E out \in OutcomesFor(c) : Complete(c, out)
    \/ \E c \in Callers : Forget(c)

SpecConcurrent == InitConcurrent /\ [][NextConcurrent]_vars

(***************************************************************************)
(* Runs of the query encoder alone: an options value is encoded into the   *)
(* URL of its list method, twice.                                          *)
(***************************************************************************)
\* the values a field of each kind is given, its zero value among them
StringSamples == {"", "P1", "a b&c=d%+[]"}

FieldSamples(kind) ==
    CASE kind = "string" -> StringSamples
      [] kind = "slice" -> SeqsUpTo(StringSamples, MaxElems)
      [] kind = "uint" -> {0, 25}
      [] kind = "bool" -> {FALSE, TRUE}

\* the values a second field is given: a sequence there has one element at most
OtherSamples(kind) ==
    CASE kind = "slice" -> {<<>>} \cup {<<s>> : s \in StringSamples}
      [] OTHER -> FieldSamples(kind)

\* the options values with at most two fields off their zero value
QueryOptions(kind) ==
    LET z == ZeroOptions(kind)
        F == FieldNames(kind)
    IN  UNION { UNION { {[z EXCEPT ![g] = y, ![f] = x] :
                            x \in FieldSamples(FieldOf(kind, f).kind),
                            y \in OtherSamples(FieldOf(kind, g).kind)} :
                        g \in F } :
                f \in F }

\* the request of the list method that encodes options of this kind
ListRequest(kind, id, o, iter) ==
    CASE kind = "ListIncidentsOptions" -> ListIncidentsWithContextReq(Background, o, iter)
      [] kind = "ListIncidentAlertsOptions" ->
             ListIncidentAlertsWithContextReq(Background, id, o, iter)
      [] kind = "ListIncidentLogEntriesOptions" ->
             ListIncidentLogEntriesWithContextReq(Background, id, o, iter)

EncodeQ ==
    /\ Len(qenc) < 2
    /\ \E iter \in IterationOrders(Values(qkind, qopts)) :
           qenc' = Append(qenc, ListRequest(qkind, qid, qopts, iter).path)
    /\ UNCHANGED <<call, qkind, qid, qopts>>

InitQ ==
    /\ call = [c \in {"c1"} |-> IdleCall]
    /\ qkind \in OptionKinds
    /\ qid \in (IF qkind = "ListIncidentsOptions" THEN {""} ELSE Ids)
    /\ qopts \in QueryOptions(qkind)
    /\ qenc = <<>>

NextQ == EncodeQ

SpecQuery == InitQ /\ [][NextQ]_vars


(***************************************************************************)
(* Properties of the method calls.                                         *)
(***************************************************************************)
Called(c) == call[c].pc \in {"calling", "returned"}

Returned(c) == call[c].pc = "returned"

\* the method's return values, and what its last gateway call gave back
RetOf(c) == call[c].ret[1]

OutOf(c) == call[c].outs[Len(call[c].outs)]

\* C1: every WithContext method hands the caller's context to the gateway,
\* so that a call whose context was cancelled in flight returns the
\* context's error and no decoded result.
C1_CallerContextReachesGateway ==
    \A c \in Callers :
        call[c].inv.op \in WithContextOps =>
            /\ \A i \in 1..Len(call[c].reqs) : call[c].reqs[i].ctx = call[c].inv.ctx
            /\ (Returned(c) /\ call[c].cancelledInFlight) =>
                   /\ RetOf(c).err \in ContextErrors
                   /\ RetOf(c).value = Nil

\* C2: every post and every put carries a From header.
C2_WritesCarryFrom ==
    \A c \in Callers :
        \A i \in 1..Len(call[c].reqs) :
            call[c].reqs[i].verb \in {"post", "put"} =>
                "From" \in DOMAIN call[c].reqs[i].headers

\* the envelope key each decoding method expects in the response
ExpectedKey(op) ==
    CASE op \in {"ListIncidents", "ListIncidentsWithContext", "ManageIncidents",
                 "ManageIncidentsWithContext"} -> "incidents"
      [] op \in {"CreateIncident", "CreateIncidentWithContext", "MergeIncidents",
                 "MergeIncidentsWithContext", "GetIncident", "GetIncidentWithContext",
                 "SnoozeIncidentWithResponse", "SnoozeIncidentWithContext"} -> "incident"
      [] op \in {"ListIncidentNotes", "ListIncidentNotesWithContext"} -> "notes"
      [] op \in {"CreateIncidentNoteWithResponse", "CreateIncidentNoteWithContext"} -> "note"
      [] op \in {"ListIncidentAlerts", "ListIncidentAlertsWithOpts",
                 "ListIncidentAlertsWithContext", "ManageIncidentAlerts",
                 "ManageIncidentAlertsWithContext"} -> "alerts"
      [] op \in {"GetIncidentAlert", "GetIncidentAlertWithContext"} -> "alert"
      [] op \in {"ListIncidentLogEntries", "ListIncidentLogEntriesWithContext"}
             -> "log_entries"
      [] op \in {"ResponderRequest", "ResponderRequestWithContext"} -> "responder_request"

\* the methods that decode the response: all but the two deprecated ones
DecodingOps == Ops \ {"CreateIncidentNote", "SnoozeIncident"}

\* C3: a success response whose JSON object lacks the expected envelope key
\* makes the method return a MissingEnvelopeKey error and no entity.
C3_MissingEnvelopeKeyIsAnError ==
    \A c \in Callers :
        ( /\ Returned(c)
          /\ call[c].inv.op \in DecodingOps
          /\ OutOf(c).err = NoError
          /\ OutOf(c).body.t = "object"
          /\ ExpectedKey(call[c].inv.op) \notin DOMAIN OutOf(c).body.v )
        => /\ RetOf(c).err = MissingEnvelopeKey
           /\ RetOf(c).value = Nil

\* what c.decodeJSON gives for the response type of each decoding method
DecodeOf(op, body) ==
    CASE op \in {"ListIncidents", "ListIncidentsWithContext", "ManageIncidents",
                 "ManageIncidentsWithContext"} -> decodeStruct(body, ListIncidentsResponse)
      [] op \in {"CreateIncident", "CreateIncidentWithContext", "MergeIncidents",
                 "MergeIncidentsWithContext", "SnoozeIncidentWithResponse",
                 "SnoozeIncidentWithContext"} -> decodeStruct(body, createIncidentResponse)
      [] op \in {"GetIncident", "GetIncidentWithContext"} -> decodeMap(body, "Incident")
      [] op \in {"ListIncidentNotes", "ListIncidentNotesWithContext"} ->
             decodeMap(body, "[]IncidentNote")
      [] op \in {"CreateIncidentNoteWithResponse", "CreateIncidentNoteWithContext"} ->
             decodeStruct(body, CreateIncidentNoteResponse)
      [] op \in {"ListIncidentAlerts", "ListIncidentAlertsWithOpts",
                 "ListIncidentAlertsWithContext", "ManageIncidentAlerts",
                 "ManageIncidentAlertsWithContext"} -> decodeStruct(body, ListAlertsResponse)
      [] op \in {"GetIncidentAlert", "GetIncidentAlertWithContext"} ->
             decodeStruct(body, IncidentAlertResponse)
      [] op \in {"ListIncidentLogEntries", "ListIncidentLogEntriesWithContext"} ->
             decodeStruct(body, ListIncidentLogEntriesResponse)
      [] op \in {"ResponderRequest", "ResponderRequestWithContext"} ->
             decodeStruct(body, ResponderRequestResponse)

\* the method returned no value: a nil result, and a nil *http.Response
NoValue(r) ==
    /\ "value" \in DOMAIN r => r.value = Nil
    /\ "resp" \in DOMAIN r => r.resp = Nil

\* C4: when the gateway call fails, or decoding the response fails, the
\* method returns that error unchanged and a nil result.
C4_ErrorsPropagateUnchanged ==
    \A c \in Callers :
        Returned(c) =>
            /\ OutOf(c).err # NoError =>
                   /\ RetOf(c).err = OutOf(c).err
                   /\ NoValue(RetOf(c))
            /\ ( /\ OutOf(c).err = NoError
                 /\ call[c].inv.op \in DecodingOps
                 /\ DecodeOf(call[c].inv.op, OutOf(c).body).err # NoError )
               => /\ RetOf(c).err = DecodeOf(call[c].inv.op, OutOf(c).body).err
                  /\ NoValue(RetOf(c))

\* GetIncident of an ID the service answers 404 for has returned that error
C4_Witness ==
    \E c \in Callers :
        /\ Returned(c)
        /\ call[c].inv.op = "GetIncident"
        /\ call[c].inv.id = "Q2"
        /\ OutOf(c).err = HTTPStatusError(404)
        /\ RetOf(c) = Result(Nil, HTTPStatusError(404))

\* C5: a method issues one gateway call, with one of the three verbs, issues
\* no second call whatever the first gave back, and has no call in flight
\* once it has returned.
C5_OneGatewayCall ==
    \A c \in Callers :
        /\ Len(call[c].reqs) <= 1
        /\ Called(c) =>
               /\ Len(call[c].reqs) = 1
               /\ call[c].reqs[1].verb \in {"get", "post", "put"}
        /\ Returned(c) =>
               /\ Len(call[c].outs) = Len(call[c].reqs)
               /\ call[c].pending = <<>>

\* ManageIncidents with two mutations has returned after a single PUT, which
\* the service answered with a 500
C5_Witness ==
    \E c \in Callers :
        /\ Returned(c)
        /\ call[c].inv.op = "ManageIncidents"
        /\ Len(call[c].inv.incidents) = 2
        /\ Len(call[c].reqs) = 1
        /\ call[c].reqs[1].verb = "put"
        /\ OutOf(c).err = HTTPStatusError(500)


\* the path of each list method, without the query string
ListPath(inv) ==
    CASE inv.op \in {"ListIncidents", "ListIncidentsWithContext"} -> "/incidents"
      [] inv.op \in {"ListIncidentAlerts", "ListIncidentAlertsWithOpts",
                     "ListIncidentAlertsWithContext"} -> "/incidents/" \o inv.id \o "/alerts"
      [] inv.op \in {"ListIncidentLogEntries", "ListIncidentLogEntriesWithContext"}
             -> "/incidents/" \o inv.id \o "/log_entries"

\* the field of each list response that holds the items
ItemsField(op) ==
    CASE op \in {"ListIncidents", "ListIncidentsWithContext"} -> "Incidents"
      [] op \in {"ListIncidentAlerts", "ListIncidentAlertsWithOpts",
                 "ListIncidentAlertsWithContext"} -> "Alerts"
      [] op \in {"ListIncidentLogEntries", "ListIncidentLogEntriesWithContext"}
             -> "LogEntries"

ZeroOptionsCall(c) ==
    /\ Called(c)
    /\ call[c].inv.op \in ListOps
    /\ OptionsOf(call[c].inv) = ZeroOptions(OptionKindOf(call[c].inv.op))

\* C6: list options with every field at its zero value encode to the empty
\* query string; the list method still issues its GET, and returns the page
\* the service answers with (an empty page when there are no items) and no
\* error.
C6_ZeroOptionsListEverything ==
    \A c \in Callers :
        ZeroOptionsCall(c) =>
            /\ call[c].reqs[1].verb = "get"
            /\ cutAfter(call[c].reqs[1].path, "?") = ""
            /\ call[c].reqs[1].path = ListPath(call[c].inv) \o "?"
            /\ ( /\ Returned(c)
                 /\ OutOf(c).err = NoError
                 /\ OutOf(c).body.t = "object"
                 /\ DOMAIN OutOf(c).body.v =
                        {ExpectedKey(call[c].inv.op), "offset", "limit", "more"} )
               => /\ RetOf(c).err = NoError
                  /\ RetOf(c).value # Nil
                  /\ RetOf(c).value[1][ItemsField(call[c].inv.op)] # Nil
                  /\ Len(RetOf(c).value[1][ItemsField(call[c].inv.op)][1])
                         = Len(OutOf(c).body.v[ExpectedKey(call[c].inv.op)].v)
                  /\ RetOf(c).value[1].Limit = OutOf(c).body.v["limit"].v
                  /\ RetOf(c).value[1].More = OutOf(c).body.v["more"].v

\* ListIncidents with zero options has returned the service's empty page
C6_Witness ==
    \E c \in Callers :
        /\ ZeroOptionsCall(c)
        /\ Returned(c)
        /\ call[c].inv.op = "ListIncidents"
        /\ call[c].reqs[1].path = "/incidents?"
        /\ OutOf(c) = [err |-> NoError, body |-> JPage("incidents", <<>>)]
        /\ RetOf(c).err = NoError
        /\ RetOf(c).value[1].Incidents = Some(<<>>)
        /\ RetOf(c).value[1].Limit = 25

\* the number of "&"-separated pairs of a query string whose key, once
\* unescaped, is key
RECURSIVE countPairs(_, _)
countPairs(query, key) ==
    IF query = "" THEN 0
    ELSE (IF unescape(cutBefore(cutBefore(query, "&"), "=")) = key THEN 1 ELSE 0)
             + countPairs(cutAfter(query, "&"), key)

\* the query string of a URL
QueryOf(url) == cutAfter(url, "?")

\* C7: a sequence-valued field of n >= 1 elements is encoded as n pairs
\* key[]=value, in the order of the elements, and parsing the query string
\* gives back the sequence under key[].  Keys and values are read as URL
\* query text: in the bytes sent, "[" and "]" are escaped as %5B and %5D.
C7_BracketPairsRoundTrip ==
    \A i \in 1..Len(qenc) :
        \A f \in FieldNames(qkind) :
            (FieldOf(qkind, f).kind = "slice" /\ Len(qopts[f]) >= 1) =>
                LET key    == FieldOf(qkind, f).name \o "[]"
                    parsed == ParseQuery(QueryOf(qenc[i]))
                IN  /\ ~parsed.err
                    /\ countPairs(QueryOf(qenc[i]), key) = Len(qopts[f])
                    /\ key \in DOMAIN parsed.values
                    /\ parsed.values[key] = qopts[f]

\* two statuses, one of them full of reserved characters, beside another
\* sequence field, have been encoded
C7_Witness ==
    /\ Len(qenc) >= 1
    /\ qkind = "ListIncidentsOptions"
    /\ qopts.Statuses = <<"a b&c=d%+[]", "P1">>
    /\ qopts.ServiceIDs = <<"P1">>
    /\ QueryOf(qenc[1]) =
           "service_ids%5B%5D=P1&statuses%5B%5D=a+b%26c%3Dd%25%2B%5B%5D&statuses%5B%5D=P1"

\* C8: encoding an options value twice gives the same bytes, whatever order
\* the encoder's map is ranged over: two list calls with equal options and
\* equal incident ID send the same path and query.
C8_EncodingIsDeterministic == Len(qenc) = 2 => qenc[1] = qenc[2]

\* an options value with two keys has been encoded twice for one incident
C8_Witness ==
    /\ Len(qenc) = 2
    /\ qkind = "ListIncidentAlertsOptions"
    /\ qid = "Q1"
    /\ Cardinality(DOMAIN Values(qkind, qopts)) = 2
    /\ qenc[2] = "/incidents/Q1/alerts?sort_by=P1&statuses%5B%5D=P1"

\* C9: ManageIncidents sends one PUT to /incidents whose body holds the
\* caller's mutation list, as given, under the single key "incidents", with
\* From set to the actor; it returns the list the service reports.
C9_ManageIncidentsBulkPut ==
    \A c \in Callers :
        (Called(c) /\ call[c].inv.op \in {"ManageIncidents", "ManageIncidentsWithContext"}) =>
            /\ call[c].reqs[1].verb = "put"
            /\ call[c].reqs[1].path = "/incidents"
            /\ DOMAIN call[c].reqs[1].body = {"incidents"}
            /\ call[c].reqs[1].body["incidents"] = call[c].inv.incidents
            /\ call[c].reqs[1].headers = Headers(call[c].inv.from)
            /\ ( /\ Returned(c)
                 /\ OutOf(c).err = NoError
                 /\ OutOf(c).body.t = "object"
                 /\ "incidents" \in DOMAIN OutOf(c).body.v )
               => LET reported == OutOf(c).body.v["incidents"].v
                  IN  /\ RetOf(c).err = NoError
                      /\ RetOf(c).value # Nil
                      /\ RetOf(c).value[1].Incidents # Nil
                      /\ Len(RetOf(c).value[1].Incidents[1]) = Len(reported)
                      /\ \A i \in 1..Len(reported) :
                             /\ RetOf(c).value[1].Incidents[1][i].Id = reported[i].v["id"].v
                             /\ RetOf(c).value[1].Incidents[1][i].Status
                                    = reported[i].v["status"].v

\* two mutations, for Q1 and Q2, were sent and the service reported one
\* incident: the result holds that one
C9_Witness ==
    \E c \in Callers :
        /\ Returned(c)
        /\ call[c].inv.op = "ManageIncidents"
        /\ Len(call[c].inv.incidents) = 2
        /\ call[c].inv.incidents[1].ID = "Q1"
        /\ call[c].inv.incidents[2].ID = "Q2"
        /\ call[c].reqs[1].body["incidents"] = call[c].inv.incidents
        /\ OutOf(c) = [err |-> NoError, body |-> JPage("incidents", <<JIncident("Q1")>>)]
        /\ Len(RetOf(c).value[1].Incidents[1]) = 1
        /\ RetOf(c).value[1].Incidents[1][1].Id = "Q1"

\* the segments of a path, split at "/"
RECURSIVE Segments(_)
Segments(path) ==
    IF path = "" THEN <<>>
    ELSE <<cutBefore(path, "/")>> \o
         (IF Contains(path, "/") THEN
              (IF cutAfter(path, "/") = "" THEN <<"">> ELSE Segments(cutAfter(path, "/")))
          ELSE <<>>)

\* C10: MergeIncidents sends a PUT to /incidents/{targetId}/merge with From
\* set to the actor and the sources in the body; no source ID is part of the
\* path; on success it returns the incident of the "incident" envelope.
C10_MergeIncidentsPutsToTarget ==
    \A c \in Callers :
        (Called(c) /\ call[c].inv.op \in {"MergeIncidents", "MergeIncidentsWithContext"}) =>
            /\ call[c].reqs[1].verb = "put"
            /\ Segments(call[c].reqs[1].path) = <<"", "incidents", call[c].inv.id, "merge">>
            /\ \A i \in 1..Len(call[c].inv.sourceIncidents) :
                   call[c].inv.sourceIncidents[i].ID # call[c].inv.id =>
                       \A k \in 1..Len(Segments(call[c].reqs[1].path)) :
                           Segments(call[c].reqs[1].path)[k]
                               # call[c].inv.sourceIncidents[i].ID
            /\ call[c].reqs[1].headers = Headers(call[c].inv.from)
            /\ call[c].reqs[1].body = [source_incidents |-> call[c].inv.sourceIncidents]
            /\ ( /\ Returned(c)
                 /\ OutOf(c).err = NoError
                 /\ OutOf(c).body.t = "object"
                 /\ "incident" \in DOMAIN OutOf(c).body.v )
               => /\ RetOf(c).err = NoError
                  /\ RetOf(c).value # Nil
                  /\ RetOf(c).value[1].Id = OutOf(c).body.v["incident"].v["id"].v
                  /\ RetOf(c).value[1].Status = OutOf(c).body.v["incident"].v["status"].v

\* Q2 was merged into Q1 and the target's representation returned
C10_Witness ==
    \E c \in Callers :
        /\ Returned(c)
        /\ call[c].inv.op = "MergeIncidents"
        /\ call[c].inv.id = "Q1"
        /\ Len(call[c].inv.sourceIncidents) = 1
        /\ call[c].inv.sourceIncidents[1].ID = "Q2"
        /\ call[c].reqs[1].path = "/incidents/Q1/merge"
        /\ OutOf(c) = [err |-> NoError, body |-> JObj([incident |-> JIncident("Q1")])]
        /\ RetOf(c) = Result(Some([Id |-> "Q1", Status |-> "triggered", Title |-> "db down"]),
                             NoError)


\* C11: calls on one Client are independent.  Whatever the other caller is
\* doing, a call's request is the one its own arguments give, its return
\* values are those its own gateway outcome gives, and the Client never makes
\* a caller wait for another: an idle caller can start a call and a call in
\* flight can complete.
C11_CallsAreIndependent ==
    \A c \in Callers :
        /\ Called(c) =>
               call[c].reqs \in {<<Request(call[c].inv, iter)>> :
                                    iter \in IterationOrdersOf(call[c].inv)}
        /\ Returned(c) => RetOf(c) = Return(call[c].inv, OutOf(c))
        /\ call[c].pc = "idle" =>
               \A inv \in ConcurrentInvocations :
                   ENABLED (\E iter \in IterationOrdersOf(inv) : Invoke(c, inv, iter))
        /\ call[c].pc = "calling" =>
               ENABLED (\E out \in OutcomesFor(c) : Complete(c, out))

\* two writes race on incident Q1: the snooze, which sets no header, has
\* returned its incident while the bulk update, which sets From, is in flight
C11_Witness ==
    /\ call["c1"].pc = "calling"
    /\ call["c1"].inv.op = "ManageIncidentsWithContext"
    /\ call["c1"].inv.incidents[1].ID = "Q1"
    /\ call["c1"].reqs[1].headers = Headers(Actor)
    /\ call["c2"].pc = "returned"
    /\ call["c2"].inv.op = "SnoozeIncidentWithContext"
    /\ call["c2"].inv.id = "Q1"
    /\ call["c2"].reqs[1].headers = NoHeaders
    /\ OutOf("c2") = [err |-> NoError, body |-> JObj([incident |-> JIncident("Q1")])]
    /\ RetOf("c2").err = NoError
    /\ RetOf("c2").value[1].Id = "Q1"


\* the path of a request, without its query string
PathOf(req) == cutBefore(req.path, "?")

\* the names under an incident that the methods address
Subresources ==
    {"notes", "alerts", "snooze", "merge", "log_entries", "responder_requests"}

\* C12: a path sent to the gateway is /incidents, /incidents/{id},
\* /incidents/{id}/{subresource} or /incidents/{id}/{subresource}/{subId},
\* with the IDs as given and no empty or trailing segment; the alert methods
\* of an incident address exactly /incidents/{id}/alerts.
C12_PathsHaveBuilderShape ==
    \A c \in Callers :
        \A i \in 1..Len(call[c].reqs) :
            LET segs == Segments(PathOf(call[c].reqs[i]))
                inv  == call[c].inv
            IN  /\ Len(segs) \in 2..5
                /\ segs[1] = ""
                /\ segs[2] = "incidents"
                /\ \A k \in 2..Len(segs) : segs[k] # ""
                /\ Len(segs) >= 3 => segs[3] = inv.id
                /\ Len(segs) >= 4 => segs[4] \in Subresources
                /\ Len(segs) = 5 => segs[5] = inv.alertID
                /\ inv.op \in {"ManageIncidentAlerts", "ManageIncidentAlertsWithContext",
                               "ListIncidentAlerts", "ListIncidentAlertsWithOpts",
                               "ListIncidentAlertsWithContext"}
                       => PathOf(call[c].reqs[i]) = "/incidents/" \o inv.id \o "/alerts"


\* the WithContext method a method without a context parameter stands for
CounterpartOp(op) ==
    CASE op \in {"ListIncidentAlerts", "ListIncidentAlertsWithOpts"} ->
             "ListIncidentAlertsWithContext"
      [] op \in {"CreateIncidentNoteWithResponse", "CreateIncidentNote"} ->
             "CreateIncidentNoteWithContext"
      [] op \in {"SnoozeIncidentWithResponse", "SnoozeIncident"} ->
             "SnoozeIncidentWithContext"
      [] OTHER -> op \o "WithContext"

\* that method's invocation: a background context and the same arguments
Counterpart(inv) ==
    LET same == [x \in DOMAIN inv |->
                    IF x = "op" THEN CounterpartOp(inv.op)
                    ELSE IF x = "ctx" THEN Background
                    ELSE inv[x]]
    IN  IF inv.op = "ListIncidentAlerts"
        THEN [x \in DOMAIN same \cup {"o"} |->
                 IF x = "o" THEN ZeroOptions("ListIncidentAlertsOptions") ELSE same[x]]
        ELSE same

\* the deprecated methods, which return an error only
ErrorOnlyOps == {"CreateIncidentNote", "SnoozeIncident"}

SameRequestAsCounterpart(c) ==
    call[c].reqs \in {<<Request(Counterpart(call[c].inv), iter)>> :
                         iter \in IterationOrdersOf(Counterpart(call[c].inv))}

\* C13, as claimed: a method without a context parameter issues the request
\* of its WithContext counterpart called with a background context and the
\* same arguments, and returns an error exactly when the counterpart does.
C13_PlainEqualsWithContext ==
    \A c \in Callers :
        call[c].inv.op \in PlainOps =>
            /\ Called(c) => SameRequestAsCounterpart(c)
            /\ Returned(c) =>
                   ((RetOf(c).err # NoError)
                        <=> (Return(Counterpart(call[c].inv), OutOf(c)).err # NoError))

\* C13, amended: the request is the counterpart's; the error is the
\* counterpart's too, except that the deprecated CreateIncidentNote and
\* SnoozeIncident, which do not decode the response, return the gateway's
\* error alone, nil included, whatever decoding would have given.
C13_PlainEqualsWithContextUpToDecoding ==
    \A c \in Callers :
        call[c].inv.op \in PlainOps =>
            /\ Called(c) => SameRequestAsCounterpart(c)
            /\ (Returned(c) /\ call[c].inv.op \notin ErrorOnlyOps) =>
                   RetOf(c).err = Return(Counterpart(call[c].inv), OutOf(c)).err
            /\ (Returned(c) /\ call[c].inv.op \in ErrorOnlyOps) =>
                   /\ RetOf(c).err = OutOf(c).err
                   /\ OutOf(c).err # NoError =>
                          Return(Counterpart(call[c].inv), OutOf(c)).err = OutOf(c).err

\* the deprecated SnoozeIncident has sent the counterpart's request and
\* returned nil for a body the counterpart fails to decode
C13_Witness ==
    \E c \in Callers :
        /\ Returned(c)
        /\ call[c].inv.op = "SnoozeIncident"
        /\ call[c].reqs = <<SnoozeIncidentWithContextReq(Background, call[c].inv.id, 3600)>>
        /\ OutOf(c) = [err |-> NoError, body |-> NotJSON]
        /\ RetOf(c).err = NoError
        /\ Return(Counterpart(call[c].inv), OutOf(c)).err = DecodeError

=============================================================================
